---------------------------- MODULE Spec2Model ----------------------------
(***************************************************************************)
(* State-machine model of osquery/tables/forensic/sleuthkit.cpp: the       *)
(* DeviceHelper class (open, partitions, generateFile, generateFiles,      *)
(* resetStack) and the two table generators genDevicePartitions and        *)
(* genDeviceFile.                                                          *)
(*                                                                         *)
(* The sleuthkit library (images, volumes, partitions, filesystems,        *)
(* directories, files) is the environment: a fixed universe of device      *)
(* images, given below as data.                                            *)
(*                                                                         *)
(* A std::string is a TLA+ string: Len, \o and SubSeq read and build it    *)
(* character by character, and ToString formats a number.                  *)
(***************************************************************************)
EXTENDS Integers, Sequences, FiniteSets, TLC

\* The ceiling the walker compares its depth counter with.
kMaxStack == 1024

\* Number of nested directories of the chain image.
ChainLen == 1030

\* The wide image: directories in its root and in every directory of the
\* next level; the directories of the third level hold one less.
WideFan == 10

\* The bush image: as the wide image, with more directories than the
\* ceiling counts.
BushFan == 11

\* How often the client of one DeviceHelper may call partitions().
MaxCalls == 4

\* How many generateFiles invocations of one walk are followed: no walk of
\* the images below makes as many.
StackLimit == 1100

----------------------------------------------------------------------------
(* Values that stand for a null pointer or an absent value.                *)

NoPart == [null |-> TRUE]
NoName == "NoName"
NoDesc == "NoDesc"
NoFs == "NoFs"
NoInum == 0 - 1

\* TSK_VS_PART_FLAG_ENUM
TSK_VS_PART_FLAG_ALLOC == 1
TSK_VS_PART_FLAG_UNALLOC == 2
TSK_VS_PART_FLAG_META == 4

\* x & bit, for a single-bit mask.
HasFlag(x, bit) == (x \div bit) % 2 = 1

----------------------------------------------------------------------------
(* Filesystem images.  An image maps an inode number to its metadata and,  *)
(* for a directory, to its entries in native enumeration order.  An entry  *)
(* is what TskFsDir::getFile(i) hands out: no file at all (file = FALSE),  *)
(* or a file with an optional name (NoName: none) that refers to an inode. *)
(* A file has metadata when its inode has (hasMeta).                       *)

Ent(n, i) == [file |-> TRUE, name |-> n, inum |-> i]
NullFile == [file |-> FALSE, name |-> NoName, inum |-> NoInum]

\* An inode: type tag, entries, whether a directory open on it succeeds,
\* whether its metadata and its filesystem reference are retrievable, the
\* name in slot 0 of its parent-name list (NoName: the list is empty).
Ino(t, ents, dopen, hasmeta, hasfs, n2) ==
  [mtype |-> t, entries |-> ents, dirOpens |-> dopen, hasMeta |-> hasmeta,
   hasFsInfo |-> hasfs, name2 |-> n2,
   uid |-> 1000, gid |-> 100, mode |-> 420, size |-> 7 * Len(ents) + 1,
   atime |-> 30, mtime |-> 20, crtime |-> 10, nlink |-> 1]

Reg(n2) == Ino("REG", <<>>, FALSE, TRUE, TRUE, n2)
Dir(ents) == Ino("DIR", ents, TRUE, TRUE, TRUE, NoName)

FsRec(t, fl, off, bs, bc, ic, root, inodes) ==
  [ftype |-> t, flags |-> fl, offset |-> off, block_size |-> bs,
   block_count |-> bc, inum_count |-> ic, root_inum |-> root,
   inodes |-> inodes]

\* A tree: /f1, /d1/f2, /d1/d2/f3, with "." and ".." in every directory, a
\* symlink, and an entry of a type the name table does not know.  Inode 15
\* has an empty parent-name list.
TreeFs ==
  FsRec(8192, 0, 1048576, 4096, 200, 64, 2,
    (2 :> Dir(<<Ent(".", 2), Ent("..", 2), Ent("f1", 12), Ent("d1", 3),
               Ent("l1", 14)>>)
     @@ 3 :> Dir(<<Ent(".", 3), Ent("..", 2), Ent("d2", 4), Ent("f2", 13)>>)
     @@ 4 :> Dir(<<Ent(".", 4), Ent("..", 3), Ent("f3", 15), Ent("w", 16)>>)
     @@ 12 :> Reg("f1")
     @@ 13 :> Reg("f2")
     @@ 14 :> Ino("LNK", <<>>, FALSE, TRUE, TRUE, "l1")
     @@ 15 :> Reg(NoName)
     @@ 16 :> Ino("WHT", <<>>, FALSE, TRUE, TRUE, "w")))

\* A damaged image: an entry without a file, entries without metadata or
\* without a name; two siblings of one name and different inodes (x); one
\* directory inode under two names (z, w); a directory reachable by two
\* paths (/x and /y/x); a directory that does not open (k); native order
\* unlike inode order.  Inode 0 opens (as on NTFS, where it is the $MFT).
OddFs ==
  FsRec(1, 1, 0, 512, 1000, 32, 5,
    (0 :> Reg("$MFT")
     @@ 5 :> Dir(<<NullFile, Ent("g", 13), Ent(NoName, 12), Ent(NoName, 6),
                   Ent("y", 8), Ent("x", 7), Ent("x", 10), Ent("z", 6),
                   Ent("w", 6), Ent("k", 9), Ent("f", 12)>>)
     @@ 6 :> Dir(<<Ent("a", 12), Ent("b", 13)>>)
     @@ 7 :> Dir(<<Ent("c", 15)>>)
     @@ 8 :> Dir(<<Ent("x", 7)>>)
     @@ 9 :> Ino("DIR", <<>>, FALSE, TRUE, TRUE, "k")
     @@ 10 :> Dir(<<Ent("h", 12)>>)
     @@ 12 :> Reg("f")
     @@ 13 :> Ino("REG", <<>>, FALSE, FALSE, TRUE, NoName)
     @@ 15 :> Ino("REG", <<>>, FALSE, TRUE, FALSE, "c")))

\* Three levels of directories /a, /a/b, /a/b/c, the last ones empty:
\* 1 + WideFan * (1 + WideFan * WideFan) directories.  The root also holds,
\* with its highest inode number, a directory z that holds a file and
\* itself: /z, /z/z, /z/z/z, ... all name it.
WideFs ==
  FsRec(128, 0, 0, 1024, 5000, 5000, 2,
    [i \in {2, 12, 999} \cup 101..(100 + WideFan)
            \cup 1000..(1000 + 101 * WideFan) \cup 100000..(100000 + 10101 * WideFan) |->
       CASE i = 2 ->
              Dir([a \in 1..WideFan |-> Ent(ToString(a), 100 + a)]
                  \o <<Ent("z", 999)>>)
         [] i = 12 -> Reg("f")
         [] i = 999 -> Dir(<<Ent("f", 12), Ent("z", 999)>>)
         [] i \in 101..(100 + WideFan) ->
              Dir([b \in 1..WideFan |->
                     Ent(ToString(b), 1000 + 100 * (i - 100) + b)])
         [] i \in 1000..(1000 + 101 * WideFan) ->
              Dir([c \in 1..(WideFan - 1) |->
                     Ent(ToString(c), 100000 + 100 * (i - 1000) + c)])
         [] OTHER -> Dir(<<>>)])

\* A tree of three levels of directories as in the wide image,
\* 1 + BushFan * (1 + BushFan * BushFan) directories in all, and, with the
\* highest inode number of the root, a directory last that holds a file.
BushFs ==
  FsRec(512, 0, 0, 1024, 5000, 5000, 2,
    [i \in {2, 12, 999} \cup 101..(100 + BushFan)
            \cup 1000..(1000 + 101 * BushFan) \cup 100000..(100000 + 10101 * BushFan) |->
       CASE i = 2 ->
              Dir([a \in 1..BushFan |-> Ent(ToString(a), 100 + a)]
                  \o <<Ent("last", 999)>>)
         [] i = 12 -> Reg("f")
         [] i = 999 -> Dir(<<Ent("f", 12)>>)
         [] i \in 101..(100 + BushFan) ->
              Dir([b \in 1..BushFan |->
                     Ent(ToString(b), 1000 + 100 * (i - 100) + b)])
         [] i \in 1000..(1000 + 101 * BushFan) ->
              Dir([c \in 1..(BushFan - 1) |->
                     Ent(ToString(c), 100000 + 100 * (i - 1000) + c)])
         [] OTHER -> Dir(<<>>)])

\* A chain of ChainLen nested directories /d/d/d/..., a file in the last.
ChainFs ==
  FsRec(256, 0, 0, 1024, 5000, 5000, 2,
    [i \in 2..(ChainLen + 2) |->
       IF i < ChainLen + 2 THEN Dir(<<Ent("d", i + 1)>>) ELSE Reg("f")])

Fs(id) ==
  CASE id = "tree" -> TreeFs
    [] id = "odd" -> OddFs
    [] id = "wide" -> WideFs
    [] id = "chain" -> ChainFs
    [] id = "bush" -> BushFs

----------------------------------------------------------------------------
(* Volumes and devices.  A partition's address is its index in the table,  *)
(* except on the volume twin, whose two partitions both give address 0.    *)

Part(d, fl, st, ln, f) ==
  [desc |-> d, flags |-> fl, start |-> st, len |-> ln, fs |-> f]

DeviceNames ==
  <<"/dev/bad", "/dev/bush", "/dev/chain", "/dev/novs", "/dev/sda", "/dev/sdb",
    "/dev/twin", "/dev/wide">>

Device(dev) ==
  CASE dev = "/dev/bad" ->
         [imgOk |-> FALSE, volOk |-> FALSE, block_size |-> 0, parts |-> <<>>]
    [] dev = "/dev/novs" ->
         [imgOk |-> TRUE, volOk |-> FALSE, block_size |-> 0, parts |-> <<>>]
    [] dev = "/dev/sda" ->
         [imgOk |-> TRUE, volOk |-> TRUE, block_size |-> 512,
          parts |-> << Part("Primary Table", TSK_VS_PART_FLAG_META, 0, 1, NoFs),
                       Part("Unallocated", TSK_VS_PART_FLAG_UNALLOC, 1, 2047, NoFs),
                       Part("Linux", TSK_VS_PART_FLAG_ALLOC, 2048, 4096, "tree"),
                       NoPart,
                       Part(NoDesc, TSK_VS_PART_FLAG_ALLOC, 6144, 100, NoFs) >>]
    [] dev = "/dev/sdb" ->
         [imgOk |-> TRUE, volOk |-> TRUE, block_size |-> 4096,
          parts |-> << NoPart,
                       Part("NTFS", TSK_VS_PART_FLAG_ALLOC, 8, 1000, "odd"),
                       Part("Both", TSK_VS_PART_FLAG_META + TSK_VS_PART_FLAG_UNALLOC,
                            3, 5, NoFs),
                       Part("Meta fs", TSK_VS_PART_FLAG_META, 1008, 7, "tree") >>]
    [] dev = "/dev/chain" ->
         [imgOk |-> TRUE, volOk |-> TRUE, block_size |-> 512,
          parts |-> << Part("chain", TSK_VS_PART_FLAG_ALLOC, 100, 5000, "chain") >>]
    [] dev = "/dev/bush" ->
         [imgOk |-> TRUE, volOk |-> TRUE, block_size |-> 512,
          parts |-> << Part("bush", TSK_VS_PART_FLAG_ALLOC, 0, 5000, "bush") >>]
    [] dev = "/dev/twin" ->
         [imgOk |-> TRUE, volOk |-> TRUE, block_size |-> 512,
          parts |-> << Part("a", TSK_VS_PART_FLAG_ALLOC, 0, 10, "odd"),
                       Part("b", TSK_VS_PART_FLAG_ALLOC, 10, 10, "tree") >>,
          addrs |-> <<0, 0>>]
    [] dev = "/dev/wide" ->
         [imgOk |-> TRUE, volOk |-> TRUE, block_size |-> 512,
          parts |-> << NoPart,
                       Part("wide", TSK_VS_PART_FLAG_ALLOC, 50, 5000, "wide") >>]

----------------------------------------------------------------------------
(* Strings and formatting.                                                 *)

\* BIGINT(x), INTEGER(x), TEXT(x) and std::to_string(x): the decimal text.
BIGINT(x) == ToString(x)
INTEGER(x) == ToString(x)
TEXT(x) == ToString(x)

\* The k-th character of a string.
Char(str, k) == SubSeq(str, k, k)

\* fs::path(path) / name: a separator is put between the two unless one of
\* them is empty or the path already ends with one.
Join(path, name) ==
  IF name = "" THEN path
  ELSE IF path = "" \/ Char(path, Len(path)) = "/" THEN path \o name
  ELSE path \o "/" \o name

\* The position of the last separator among the first k characters, 0 if
\* there is none.
RECURSIVE LastSlash(_, _)
LastSlash(str, k) ==
  IF k = 0 THEN 0
  ELSE IF Char(str, k) = "/" THEN k
  ELSE LastSlash(str, k - 1)

\* fs::path(path).leaf().string(): what follows the last separator; "/" for
\* the root, "." for a path that ends with a separator, "" for "".
Leaf(path) ==
  LET n == Len(path)
      k == LastSlash(path, n)
  IN IF n = 0 THEN ""
     ELSE IF k < n THEN SubSeq(path, k + 1, n)
     ELSE IF n = 1 THEN "/"
     ELSE "."

\* TSK_FS_ISDOT(name)
TSK_FS_ISDOT(name) == name = "." \/ name = ".."

\* kTSKTypeNames
kTSKTypeNames ==
  [REG |-> "regular", DIR |-> "directory", LNK |-> "symlink", BLK |-> "block",
   CHR |-> "character", FIFO |-> "fifo", SOCK |-> "socket"]

Digits == <<"0", "1", "2", "3", "4", "5", "6", "7", "8", "9">>

DigitVal(c) == (CHOOSE d \in 1..10 : Digits[d] = c) - 1

IsDigit(c) == \E d \in 1..10 : Digits[d] = c

RECURSIVE DecimalValue(_, _, _)
DecimalValue(str, k, acc) ==
  IF k > Len(str) THEN acc
  ELSE DecimalValue(str, k + 1, 10 * acc + DigitVal(Char(str, k)))

\* safeStrtol(rep, 10, out): the status, and what is left in out (0 when the
\* text is not a number).
safeStrtol(rep) ==
  IF rep # "" /\ \A k \in 1..Len(rep) : IsDigit(Char(rep, k))
  THEN [ok |-> TRUE, out |-> DecimalValue(rep, 1, 0)]
  ELSE [ok |-> FALSE, out |-> 0]

----------------------------------------------------------------------------
(* Handles.  live counts, per kind, the handles allocated and not yet      *)
(* deleted.                                                                *)

HandleKinds == {"fs", "dir", "file", "meta", "name", "name2"}

NoHandles == [k \in HandleKinds |-> 0]

Alloc(l, k) == [l EXCEPT ![k] = @ + 1]

Free(l, k) == [l EXCEPT ![k] = @ - 1]

\* A stretch of code as the handle operations it performs, in order: a
\* sequence of <<"new", kind>> and <<"delete", kind>>.
OpCount(ops, op, k) == Cardinality({p \in 1..Len(ops) : ops[p] = <<op, k>>})

\* The handle counts after the operations.
ApplyOps(l, ops) ==
  [k \in HandleKinds |-> l[k] + OpCount(ops, "new", k) - OpCount(ops, "delete", k)]

----------------------------------------------------------------------------
(* The library's lookups on an image.                                      *)

Inode(fsid, i) == Fs(fsid).inodes[i]

HasInode(fsid, i) == i \in DOMAIN Fs(fsid).inodes

\* The inode a directory entry of the given name refers to, NoInum if none.
EntryNamed(fsid, dir, name) ==
  LET ents == Inode(fsid, dir).entries
      hits == {k \in 1..Len(ents) : ents[k].file /\ ents[k].name = name}
  IN IF hits = {} THEN NoInum
     ELSE ents[CHOOSE k \in hits : \A j \in hits : k <= j].inum

\* The components of a path from its k-th character on; cur is the
\* component being read.
RECURSIVE Components(_, _, _)
Components(path, k, cur) ==
  IF k > Len(path) THEN (IF cur = "" THEN <<>> ELSE <<cur>>)
  ELSE IF Char(path, k) = "/"
  THEN (IF cur = "" THEN <<>> ELSE <<cur>>) \o Components(path, k + 1, "")
  ELSE Components(path, k + 1, cur \o Char(path, k))

RECURSIVE ResolveFrom(_, _, _, _)
ResolveFrom(fsid, i, comps, k) ==
  IF k > Len(comps) THEN i
  ELSE IF ~HasInode(fsid, i) \/ Inode(fsid, i).mtype # "DIR" THEN NoInum
  ELSE LET next == EntryNamed(fsid, i, comps[k])
       IN IF next = NoInum THEN NoInum ELSE ResolveFrom(fsid, next, comps, k + 1)

\* TskFsFile::open(fs, file, path): the inode the path names, walked from
\* the root directory; NoInum when the open fails.
OpenByPath(fsid, path) ==
  ResolveFrom(fsid, Fs(fsid).root_inum, Components(path, 1, ""), 1)

\* TskFsFile::open(fs, file, inum): the inode opened, NoInum when the open
\* fails.
OpenByInum(fsid, i) == IF HasInode(fsid, i) THEN i ELSE NoInum

----------------------------------------------------------------------------
(* DeviceHelper::generateFile: the row pushed for a file, and the handle   *)
(* counts after the call.                                                  *)

FsColumns(fsid) == [block_size |-> BIGINT(Fs(fsid).block_size)]

MetaColumns(fsid, i) ==
  LET m == Inode(fsid, i)
  IN [inode |-> BIGINT(i), uid |-> BIGINT(m.uid), gid |-> BIGINT(m.gid),
      mode |-> TEXT(m.mode), size |-> BIGINT(m.size),
      atime |-> BIGINT(m.atime), mtime |-> BIGINT(m.mtime),
      ctime |-> BIGINT(m.crtime), hard_links |-> INTEGER(m.nlink),
      type |-> IF m.mtype \in DOMAIN kTSKTypeNames
               THEN kTSKTypeNames[m.mtype] ELSE "unknown"]

GenerateFileRow(device, partition, fsid, i, path) ==
  LET r0 == [device |-> device, partition |-> partition, path |-> path,
             filename |-> Leaf(path)]
      r1 == IF Inode(fsid, i).hasFsInfo THEN FsColumns(fsid) @@ r0 ELSE r0
  IN IF Inode(fsid, i).hasMeta THEN MetaColumns(fsid, i) @@ r1 ELSE r1

\* file->getFsInfo() ... delete fs; file->getMeta() ... delete meta
GenerateFileOps(fsid, i) ==
  (IF Inode(fsid, i).hasFsInfo THEN <<(<<"new", "fs">>), <<"delete", "fs">>>>
   ELSE <<>>)
  \o (IF Inode(fsid, i).hasMeta THEN <<(<<"new", "meta">>), <<"delete", "meta">>>>
      ELSE <<>>)

GenerateFileLive(l, fsid, i) == ApplyOps(l, GenerateFileOps(fsid, i))

----------------------------------------------------------------------------
(* DeviceHelper::generateFiles, the loop over the directory's entries: the *)
(* rows it pushes, the map additional it fills and the handles it leaves.  *)
(* Every string of additional is Join(path, name) for the path of the      *)
(* invocation: the map is kept as inode -> name, and Join(path, name) is   *)
(* formed where the string is read.                                        *)

\* The entry has a file, and the file has metadata: the loop goes on to
\* its name and type.
EntryMeta(fsid, e) == e.file /\ Inode(fsid, e.inum).hasMeta

\* std::string leaf, set when the file has a name.
EntryLeaf(path, e) == IF e.name # NoName THEN Join(path, e.name) ELSE ""

\* The rows of the loop, a file whose filesystem reference is not
\* retrievable left out.
ScanRows_SkipNoFs(device, partition, fsid, path, ents) ==
  LET regs == SelectSeq(ents, LAMBDA e : EntryMeta(fsid, e)
                                         /\ Inode(fsid, e.inum).mtype = "REG"
                                         /\ Inode(fsid, e.inum).hasFsInfo)
  IN [k \in 1..Len(regs) |->
        GenerateFileRow(device, partition, fsid, regs[k].inum,
                        EntryLeaf(path, regs[k]))]

\* The rows of the loop, pushed from the last entry to the first.
ScanRows_Reversed(device, partition, fsid, path, ents) ==
  LET regs == SelectSeq(ents, LAMBDA e : EntryMeta(fsid, e)
                                         /\ Inode(fsid, e.inum).mtype = "REG")
  IN [k \in 1..Len(regs) |->
        GenerateFileRow(device, partition, fsid, regs[Len(regs) + 1 - k].inum,
                        EntryLeaf(path, regs[Len(regs) + 1 - k]))]

\* The rows of generateFile(partition, file, leaf, results), one for each
\* regular file, in the order of the entries.
ScanRows(device, partition, fsid, path, ents) ==
  LET regs == SelectSeq(ents, LAMBDA e : EntryMeta(fsid, e)
                                         /\ Inode(fsid, e.inum).mtype = "REG")
  IN [k \in 1..Len(regs) |->
        GenerateFileRow(device, partition, fsid, regs[k].inum,
                        EntryLeaf(path, regs[k]))]

\* The map filled with insert: the first entry of an inode is the one the
\* map holds.
ScanAdditional_FirstWins(fsid, ents) ==
  LET pend == {k \in 1..Len(ents) :
                 /\ EntryMeta(fsid, ents[k])
                 /\ Inode(fsid, ents[k].inum).mtype = "DIR"
                 /\ ents[k].name # NoName
                 /\ ~TSK_FS_ISDOT(ents[k].name)}
  IN [i \in {ents[k].inum : k \in pend} |->
        ents[CHOOSE k \in pend :
               /\ ents[k].inum = i
               /\ \A j \in pend : ents[j].inum = i => k <= j].name]

\* additional[meta->getAddr()] = leaf, for each named directory other than
\* "." and "..": the last entry of an inode is the one the map holds.
ScanAdditional(fsid, ents) ==
  LET pend == {k \in 1..Len(ents) :
                 /\ EntryMeta(fsid, ents[k])
                 /\ Inode(fsid, ents[k].inum).mtype = "DIR"
                 /\ ents[k].name # NoName
                 /\ ~TSK_FS_ISDOT(ents[k].name)}
  IN [i \in {ents[k].inum : k \in pend} |->
        ents[CHOOSE k \in pend :
               /\ ents[k].inum = i
               /\ \A j \in pend : ents[j].inum = i => j <= k].name]

\* How often the loop calls generateFile: once for each entry with a file,
\* metadata and the type of a regular file.
ScanCalls(fsid, ents) ==
  Cardinality({k \in 1..Len(ents) :
                 EntryMeta(fsid, ents[k]) /\ Inode(fsid, ents[k].inum).mtype = "REG"})

\* The handle operations of one pass of the loop.
ScanEntryOps(fsid, e) ==
  IF ~e.file THEN <<>>
  ELSE IF ~Inode(fsid, e.inum).hasMeta
  THEN <<(<<"new", "file">>), <<"delete", "file">>>>
  ELSE
    LET named == e.name # NoName
    IN <<(<<"new", "file">>), <<"new", "meta">>>>
       \o (IF named THEN <<(<<"new", "name">>)>> ELSE <<>>)
       \o (IF Inode(fsid, e.inum).mtype = "REG"
           THEN GenerateFileOps(fsid, e.inum) ELSE <<>>)
       \o (IF named THEN <<(<<"delete", "name">>)>> ELSE <<>>)
       \o <<(<<"delete", "meta">>), <<"delete", "file">>>>

\* The handle operations of the loop over the entries: <<j, p, op>> for
\* the p-th operation op of the pass over the j-th entry.
ScanOps(fsid, ents) ==
  UNION {{<<j, p, ScanEntryOps(fsid, ents[j])[p]>> :
            p \in 1..Len(ScanEntryOps(fsid, ents[j]))} : j \in 1..Len(ents)}

\* The handles after the loop over the entries.
ScanLive(l, ops) ==
  [k \in HandleKinds |->
     l[k] + Cardinality({t \in ops : t[3] = <<"new", k>>})
          - Cardinality({t \in ops : t[3] = <<"delete", k>>})]

\* The iteration order of std::map<TSK_INUM_T, std::string>: ascending key.
MapOrder(m) ==
  [k \in 1..Cardinality(DOMAIN m) |->
     LET i == CHOOSE i \in DOMAIN m :
                Cardinality({j \in DOMAIN m : j < i}) = k - 1
     IN [inum |-> i, name |-> m[i]]]

----------------------------------------------------------------------------
(* The program state.                                                      *)

VARIABLES
  ctx,      \* the query context: table, devices, parts, paths, inodes
  pc,       \* where the table generator stands
  devIdx,   \* position of the loop over devices
  dh,       \* the DeviceHelper of the current device
  partIdx,  \* the loop variable i of DeviceHelper::partitions
  fsh,      \* the filesystem the predicate of genDeviceFile holds open
  frames,   \* the active invocations of generateFiles, outermost first
  curPath,  \* the path argument of the innermost active invocation
  lookIdx,  \* position of the loop over paths, then over inodes
  results,  \* QueryData results
  live,     \* handles allocated and not yet deleted
  calls,    \* partitions() calls made on dh by its client
  hist      \* what has happened: a record of observations, read by no action

vars == <<ctx, pc, devIdx, dh, partIdx, fsh, frames, curPath, lookIdx, results, live,
          calls, hist>>

\* DeviceHelper::DeviceHelper
NewDeviceHelper(device_path) ==
  [device_path_ |-> device_path, opened_ |-> FALSE, opened_result_ |-> FALSE,
   stack_ |-> 0, loops_ |-> {}]

NoHelper == NewDeviceHelper("")

\* Observations of one walk.
NoWalk == [base |-> 0, returned |-> {}, redescent |-> FALSE, skips |-> 0,
           invocations |-> 0, maxOpenStack |-> 0, dirOpens |-> 0, ceilingHits |-> 0]

NoHist ==
  [imgOpens |-> 0, volOpens |-> 0, openRets |-> <<>>, visits |-> <<>>,
   fsOpens |-> 0, fopens |-> <<>>, mapped |-> 0, walks |-> 0, walk |-> NoWalk]

\* The sorted, duplicate-free lists a std::set<std::string> can hold, taken
\* from a universe listed in ascending order, of at most n elements.
RECURSIVE SortedLists(_, _)
SortedLists(universe, n) ==
  IF universe = <<>> \/ n = 0 THEN {<<>>}
  ELSE LET rest == SubSeq(universe, 2, Len(universe))
       IN SortedLists(rest, n)
          \cup {<<universe[1]>> \o t : t \in SortedLists(rest, n - 1)}

DeviceSets ==
  {<<>>, <<"/dev/bad">>, <<"/dev/novs">>, <<"/dev/sda">>, <<"/dev/sdb">>,
   <<"/dev/sda", "/dev/sdb">>, <<"/dev/bad", "/dev/sdb">>}

PartSets ==
  {<<>>, <<"0">>, <<"01">>, <<"1">>, <<"2">>, <<"3">>, <<"1", "2">>}

PathUniverse == <<"/d1/f2", "/f", "/nope">>

InodeUniverse == <<"12", "13", "15", "9", "x">>

\* How many paths, and how many inodes, a query holds at most.
MaxKeys == 2

Contexts ==
  [table : {"partitions"}, devices : DeviceSets, parts : {<<>>},
   paths : {<<>>}, inodes : {<<>>}]
  \cup [table : {"files"}, devices : DeviceSets, parts : PartSets,
        paths : SortedLists(PathUniverse, MaxKeys),
        inodes : SortedLists(InodeUniverse, MaxKeys)]

\* The queries that ask for a walk, the ones on the wide image included.
WalkContexts ==
  [table : {"files"},
   devices : DeviceSets \cup {<<"/dev/wide">>, <<"/dev/sdb", "/dev/wide">>,
                               <<"/dev/twin">>},
   parts : PartSets, paths : {<<>>}, inodes : {<<>>}]

\* The queries that ask for a walk of the chain image.
ChainContexts ==
  [table : {"files"}, devices : {<<"/dev/chain">>, <<"/dev/bad", "/dev/chain">>},
   parts : PartSets, paths : {<<>>}, inodes : {<<>>}]

Start(contexts) ==
  /\ ctx \in contexts
  /\ pc = "start"
  /\ devIdx = 1
  /\ dh = NoHelper
  /\ partIdx = 0
  /\ fsh = NoFs
  /\ frames = <<>>
  /\ curPath = ""
  /\ lookIdx = 1
  /\ results = <<>>
  /\ live = NoHandles
  /\ calls = 0
  /\ hist = NoHist

Init == Start(Contexts)

InitWalk == Start(WalkContexts)

InitChain == Start(ChainContexts)

\* The queries that ask for a walk of the bush image or of the tree image.
BushContexts ==
  [table : {"files"},
   devices : {<<"/dev/bush">>, <<"/dev/sda">>, <<"/dev/bad", "/dev/bush">>},
   parts : PartSets, paths : {<<>>}, inodes : {<<>>}]

InitBush == Start(BushContexts)

----------------------------------------------------------------------------
(* genDevicePartitions and genDeviceFile: the loop over the devices.       *)

\* The number of partition constraints left unchecked.
ConstraintsMissing_PartsUnchecked(devices, parts) == devices = <<>>

\* devices.empty() || parts.size() != 1
ConstraintsMissing(devices, parts) == devices = <<>> \/ Len(parts) # 1

\* The constraint check of genDeviceFile (genDevicePartitions has none).
GenStart ==
  /\ pc = "start"
  /\ IF ctx.table = "files" /\ ConstraintsMissing(ctx.devices, ctx.parts)
     THEN pc' = "done"
     ELSE pc' = "devloop"
  /\ UNCHANGED <<ctx, devIdx, dh, partIdx, fsh, frames, curPath, lookIdx, results,
                 live, calls, hist>>

\* for (const auto& dev : devices) { DeviceHelper dh(dev); dh.partitions(...
NextDevice ==
  /\ pc = "devloop"
  /\ IF devIdx > Len(ctx.devices)
     THEN /\ pc' = "done"
          /\ UNCHANGED <<dh, calls, hist>>
     ELSE /\ dh' = NewDeviceHelper(ctx.devices[devIdx])
          /\ calls' = 1
          /\ hist' = [hist EXCEPT !.imgOpens = 0, !.volOpens = 0,
                                  !.openRets = <<>>, !.visits = <<>>]
          /\ pc' = "open"
  /\ UNCHANGED <<ctx, devIdx, partIdx, fsh, frames, curPath, lookIdx, results, live>>

\* Where control goes when DeviceHelper::partitions returns.
AfterPartitions ==
  IF ctx.table = "client" THEN [pc |-> "client", devIdx |-> devIdx]
  ELSE [pc |-> "devloop", devIdx |-> devIdx + 1]

\* DeviceHelper::open, called first thing by DeviceHelper::partitions.
OpenResult(h) ==
  IF h.opened_ THEN h.opened_result_
  ELSE Device(h.device_path_).imgOk /\ Device(h.device_path_).volOk

\* open() without opened_ = true: the outcome is stored and never reused.
OpenHelper_NoCache(h) == [h EXCEPT !.opened_result_ = OpenResult(h)]

OpenHelper(h) ==
  IF h.opened_ THEN h
  ELSE [h EXCEPT !.opened_ = TRUE, !.opened_result_ = OpenResult(h)]

OpenImgAttempts(h) == IF h.opened_ THEN 0 ELSE 1

OpenVolAttempts(h) ==
  IF h.opened_ \/ ~Device(h.device_path_).imgOk THEN 0 ELSE 1

Open ==
  /\ pc = "open"
  /\ dh' = OpenHelper(dh)
  /\ hist' = [hist EXCEPT !.imgOpens = @ + OpenImgAttempts(dh),
                          !.volOpens = @ + OpenVolAttempts(dh),
                          !.openRets = Append(@, OpenResult(dh)),
                          !.visits = <<>>]
  /\ IF OpenResult(dh)
     THEN /\ pc' = "partloop"
          /\ partIdx' = 0
          /\ UNCHANGED devIdx
     ELSE /\ pc' = AfterPartitions.pc
          /\ devIdx' = AfterPartitions.devIdx
          /\ UNCHANGED partIdx
  /\ UNCHANGED <<ctx, fsh, frames, curPath, lookIdx, results, live, calls>>

\* The loop bound taken one short.
PartCount_Short(h) == Len(Device(h.device_path_).parts) - 1

\* volume_->getPartCount() and volume_->getPart(i)
PartCount(h) == Len(Device(h.device_path_).parts)

GetPart(h, i) == Device(h.device_path_).parts[i + 1]

\* part->getAddr(): the index of the partition in the table, unless the
\* volume gives the addresses itself.
PartAddr(h, i) ==
  IF "addrs" \in DOMAIN Device(h.device_path_)
  THEN Device(h.device_path_).addrs[i + 1] ELSE i

\* The for loop of DeviceHelper::partitions, one index per step.
PartitionsLoop ==
  /\ pc = "partloop"
  /\ IF partIdx >= PartCount(dh)
     THEN /\ pc' = AfterPartitions.pc
          /\ devIdx' = AfterPartitions.devIdx
          /\ UNCHANGED <<partIdx, hist>>
     ELSE IF GetPart(dh, partIdx) = NoPart
          THEN /\ partIdx' = partIdx + 1
               /\ UNCHANGED <<pc, devIdx, hist>>
          ELSE /\ pc' = "predicate"
               /\ hist' = [hist EXCEPT !.visits = Append(@, partIdx)]
               /\ UNCHANGED <<partIdx, devIdx>>
  /\ UNCHANGED <<ctx, dh, fsh, frames, curPath, lookIdx, results, live, calls>>

----------------------------------------------------------------------------
(* The predicate of genDevicePartitions.                                   *)

\* TskFsInfo::typeToName(fs->getFsType()), for the TSK_FS_TYPE_ENUM values
\* of the images.
typeToName(ftype) ==
  CASE ftype = 1 -> "ntfs"
    [] ftype = 128 -> "ext2"
    [] ftype = 256 -> "ext3"
    [] ftype = 8192 -> "ext4"
    [] OTHER -> "unsupported"

\* The unallocated flag tested before the meta flag.
PartTypeLabel_UnallocFirst(flags) ==
  IF HasFlag(flags, TSK_VS_PART_FLAG_UNALLOC) THEN "unallocated"
  ELSE IF HasFlag(flags, TSK_VS_PART_FLAG_META) THEN "meta"
  ELSE "normal"

\* The type label read from the partition's flags.
PartTypeLabel(flags) ==
  IF HasFlag(flags, TSK_VS_PART_FLAG_META) THEN "meta"
  ELSE IF HasFlag(flags, TSK_VS_PART_FLAG_UNALLOC) THEN "unallocated"
  ELSE "normal"

\* The offset left in blocks.
PartTableColumns_NoScale(part, block_size) ==
  [offset |-> BIGINT(part.start),
   blocks_size |-> BIGINT(block_size),
   blocks |-> BIGINT(part.len),
   inodes |-> "-1",
   flags |-> INTEGER(part.flags)]

\* The columns set after the filesystem open failed.
PartTableColumns(part, block_size) ==
  [offset |-> BIGINT(part.start * block_size),
   blocks_size |-> BIGINT(block_size),
   blocks |-> BIGINT(part.len),
   inodes |-> "-1",
   flags |-> INTEGER(part.flags)]

\* The type label of the partition table kept.
FsTableColumns_KeepType(fsid) ==
  [flags |-> INTEGER(Fs(fsid).flags),
   offset |-> BIGINT(Fs(fsid).offset),
   blocks_size |-> BIGINT(Fs(fsid).block_size),
   blocks |-> BIGINT(Fs(fsid).block_count),
   inodes |-> BIGINT(Fs(fsid).inum_count)]

\* The columns set after the filesystem open succeeded.
FsTableColumns(fsid) ==
  [type |-> typeToName(Fs(fsid).ftype),
   flags |-> INTEGER(Fs(fsid).flags),
   offset |-> BIGINT(Fs(fsid).offset),
   blocks_size |-> BIGINT(Fs(fsid).block_size),
   blocks |-> BIGINT(Fs(fsid).block_count),
   inodes |-> BIGINT(Fs(fsid).inum_count)]

PartitionRow(device, addr, part, block_size) ==
  LET r0 == [device |-> device, partition |-> ToString(addr)]
      r1 == IF part.desc # NoDesc THEN [label |-> part.desc] @@ r0 ELSE r0
      r2 == [flags |-> "0", type |-> PartTypeLabel(part.flags)] @@ r1
  IN IF part.fs = NoFs
     THEN PartTableColumns(part, block_size) @@ r2
     ELSE FsTableColumns(part.fs) @@ r2

\* new TskFsInfo() ... delete fs, after either branch.
PartitionRowLive(l) == Free(Alloc(l, "fs"), "fs")

GenPartitionRow ==
  /\ pc = "predicate"
  /\ ctx.table = "partitions"
  /\ LET part == GetPart(dh, partIdx)
     IN /\ results' = Append(results,
                        PartitionRow(dh.device_path_, PartAddr(dh, partIdx), part,
                                     Device(dh.device_path_).block_size))
        /\ live' = PartitionRowLive(live)
  /\ hist' = [hist EXCEPT !.fsOpens = @ + 1]
  /\ partIdx' = partIdx + 1
  /\ pc' = "partloop"
  /\ UNCHANGED <<ctx, devIdx, dh, fsh, frames, curPath, lookIdx, calls>>

----------------------------------------------------------------------------
(* The predicate of genDeviceFile, up to the walk or the lookups.          *)

\* The frame of a generateFiles invocation that has been called and has
\* not run yet.  Its path is a reference to the string of the caller's map
\* element.
CalledFrame(inode) ==
  [state |-> "call", inode |-> inode, additional |-> <<>>, it |-> 1]

FilePredicate ==
  /\ pc = "predicate"
  /\ ctx.table = "files"
  /\ LET part == GetPart(dh, partIdx)
         address == ToString(PartAddr(dh, partIdx))
     IN IF address # ctx.parts[1]
        THEN /\ partIdx' = partIdx + 1
             /\ pc' = "partloop"
             /\ UNCHANGED <<fsh, frames, curPath, lookIdx, live, hist>>
        ELSE IF part.fs = NoFs
        THEN /\ live' = Free(Alloc(live, "fs"), "fs")
             /\ hist' = [hist EXCEPT !.fsOpens = @ + 1]
             /\ partIdx' = partIdx + 1
             /\ pc' = "partloop"
             /\ UNCHANGED <<fsh, frames, curPath, lookIdx>>
        ELSE /\ live' = Alloc(live, "fs")
             /\ fsh' = part.fs
             /\ lookIdx' = 1
             /\ UNCHANGED partIdx
             /\ IF ctx.inodes = <<>> /\ ctx.paths = <<>>
                THEN /\ frames' = <<CalledFrame(0)>>
                     /\ curPath' = "/"
                     /\ hist' = [hist EXCEPT
                                   !.fsOpens = @ + 1,
                                   !.walks = @ + 1,
                                   !.walk = [NoWalk EXCEPT !.base = Len(results)]]
                     /\ pc' = "walk"
                ELSE /\ pc' = "paths"
                     /\ hist' = [hist EXCEPT !.fsOpens = @ + 1]
                     /\ UNCHANGED <<frames, curPath>>
  /\ UNCHANGED <<ctx, devIdx, dh, results, calls>>

----------------------------------------------------------------------------
(* DeviceHelper::generateFiles.                                            *)

\* The path argument of the caller of an invocation whose path argument
\* is path.  An invocation is called with Join(p, name) for its caller's
\* path argument p and the name of an entry (not empty, no separator in
\* it), so p is path without its last component.
Parent(path) ==
  LET k == LastSlash(path, Len(path))
  IN IF k <= 1 THEN "/" ELSE SubSeq(path, 1, k - 1)

\* The path argument of the k-th active invocation: the outermost has "/",
\* the k-th the first k - 1 components of the innermost one's.
FramePath(fr, cur, k) ==
  IF k >= Len(fr) THEN cur
  ELSE IF k = 1 THEN "/"
  ELSE LET slashes == {p \in 1..Len(cur) : Char(cur, p) = "/"}
           p == CHOOSE p \in slashes : Cardinality({q \in slashes : q < p}) = k - 1
       IN SubSeq(cur, 1, p - 1)

\* dir.second, for the element the innermost invocation's loop stands at.
PendingLeaf(fr, cur) == Join(cur, fr[Len(fr)].additional[fr[Len(fr)].it].name)

\* The counter left as it is.
PostIncrement_Lost(stack) == stack

\* The counter advanced by two.
PostIncrement_Twice(stack) == stack + 2

\* stack_++
PostIncrement(stack) == stack + 1

\* The ceiling check left out.
CeilingReached_Never(stack) == FALSE

\* if (stack_++ > 1024) return;
CeilingReached(stack) == stack > kMaxStack

\* The directory dir->open is called on.
DirInode(fsid, inode) == IF inode = 0 THEN Fs(fsid).root_inum ELSE inode

\* dir->open(fs, inum) succeeds.
DirOpens(fsid, inum) ==
  HasInode(fsid, inum) /\ Inode(fsid, inum).mtype = "DIR"
  /\ Inode(fsid, inum).dirOpens

\* The body of an invocation up to its loop over additional: the ceiling
\* check, the directory open, the loop over the entries.
WalkEnter ==
  /\ pc = "walk"
  /\ frames # <<>>
  /\ LET n == Len(frames)
         top == frames[n]
         inum == DirInode(fsh, top.inode)
         path == curPath
     IN /\ top.state = "call"
        /\ dh' = [dh EXCEPT !.stack_ = PostIncrement(@)]
        /\ IF CeilingReached(dh.stack_)
           THEN /\ frames' = [frames EXCEPT ![n].state = "ret"]
                /\ hist' = [hist EXCEPT !.walk.invocations = @ + 1,
                                        !.walk.ceilingHits = @ + 1]
                /\ UNCHANGED <<results, live>>
           ELSE IF ~DirOpens(fsh, inum)
           THEN /\ frames' = [frames EXCEPT ![n].state = "ret"]
                /\ live' = Free(Alloc(live, "dir"), "dir")
                /\ hist' = [hist EXCEPT
                              !.walk.invocations = @ + 1,
                              !.walk.maxOpenStack =
                                 IF dh'.stack_ > @ THEN dh'.stack_ ELSE @]
                /\ UNCHANGED results
           ELSE \E ents \in {Inode(fsh, inum).entries} :
                \E additional \in {ScanAdditional(fsh, ents)} :
                \E ops \in {ScanOps(fsh, ents)} :
                   /\ results' = results \o ScanRows(dh.device_path_, ctx.parts[1],
                                                     fsh, path, ents)
                   /\ live' = Free(ScanLive(Alloc(live, "dir"), ops), "dir")
                   /\ frames' = [frames EXCEPT
                                   ![n].state = "loop",
                                   ![n].additional = MapOrder(additional),
                                   ![n].it = 1]
                   /\ hist' = [hist EXCEPT
                                 !.mapped = @ + ScanCalls(fsh, ents),
                                 !.walk.invocations = @ + 1,
                                 !.walk.dirOpens = @ + 1,
                                 !.walk.maxOpenStack =
                                    IF dh'.stack_ > @ THEN dh'.stack_ ELSE @]
  /\ UNCHANGED <<ctx, pc, devIdx, partIdx, fsh, curPath, lookIdx, calls>>

\* std::find(loops_.begin(), loops_.end(), dir.second) == loops_.end()
NotInLoops(loops, leaf) == leaf \notin loops

\* for (const auto& dir : additional): one element per step, skipped or
\* descended into.  (A path that has been descended into and has not
\* returned is the path of an active invocation, a proper prefix of
\* dir.second: it is a path that has returned that dir.second can repeat.)
WalkLoop ==
  /\ pc = "walk"
  /\ frames # <<>>
  /\ LET n == Len(frames)
         top == frames[n]
     IN /\ top.state = "loop"
        /\ IF top.it > Len(top.additional)
           THEN /\ frames' = [frames EXCEPT ![n].state = "ret"]
                /\ UNCHANGED <<pc, curPath, hist>>
           ELSE LET leaf == PendingLeaf(frames, curPath)
                IN IF NotInLoops(dh.loops_, leaf)
                   THEN /\ dh.stack_ < StackLimit
                        /\ frames' = Append(frames,
                                        CalledFrame(top.additional[top.it].inum))
                        /\ curPath' = leaf
                        /\ hist' = [hist EXCEPT
                                      !.walk.redescent =
                                         @ \/ leaf \in hist.walk.returned]
                        /\ UNCHANGED pc
                   ELSE /\ frames' = [frames EXCEPT ![n].it = @ + 1]
                        /\ hist' = [hist EXCEPT !.walk.skips = @ + 1]
                        /\ UNCHANGED <<pc, curPath>>
  /\ UNCHANGED <<ctx, devIdx, dh, partIdx, fsh, lookIdx, results, live, calls>>

\* The insertion left out.
LoopsInsert_Forgotten(loops, leaf) == loops

\* The path of the calling invocation inserted with that of the returned
\* one.
LoopsInsert_WithCaller(loops, leaf) == loops \cup {leaf, Parent(leaf)}

\* loops_.insert(dir.second), after the recursive call has returned.
LoopsInsert(loops, leaf) == loops \cup {leaf}

\* An invocation returns: to the invocation that called it, or to the
\* predicate of genDeviceFile.
WalkReturn ==
  /\ pc = "walk"
  /\ frames # <<>>
  /\ LET n == Len(frames)
     IN /\ frames[n].state = "ret"
        /\ IF n = 1
           THEN /\ frames' = <<>>
                /\ curPath' = ""
                /\ pc' = "reset"
                /\ UNCHANGED <<dh, hist>>
           ELSE /\ frames' = [SubSeq(frames, 1, n - 1) EXCEPT ![n - 1].it = @ + 1]
                /\ curPath' = Parent(curPath)
                /\ dh' = [dh EXCEPT !.loops_ = LoopsInsert(@, curPath)]
                /\ hist' = [hist EXCEPT !.walk.returned = @ \cup {curPath}]
                /\ UNCHANGED pc
  /\ UNCHANGED <<ctx, devIdx, partIdx, fsh, lookIdx, results, live, calls>>

\* The counter left as the walk left it.
ResetHelper_KeepStack(h) == [h EXCEPT !.loops_ = {}]

\* DeviceHelper::resetStack, called by the predicate after the walk.
ResetHelper(h) == [h EXCEPT !.stack_ = 0, !.loops_ = {}]

ResetStack ==
  /\ pc = "reset"
  /\ dh' = ResetHelper(dh)
  /\ pc' = "paths"
  /\ UNCHANGED <<ctx, devIdx, partIdx, fsh, frames, curPath, lookIdx, results, live,
                 calls, hist>>

----------------------------------------------------------------------------
(* The lookups of genDeviceFile, by path and by inode.                     *)

\* The observation of one file open of a lookup: the constraint it was made
\* for, the inode opened (NoInum: the open failed), and the place of the row
\* pushed for it (0: none).
OpenedFile(by, key, fsid, i, before, after) ==
  [by |-> by, key |-> key, fs |-> fsid, inum |-> i,
   row |-> IF Len(after) > Len(before) THEN Len(after) ELSE 0]

\* for (const auto& path : paths): one path per step.
PathLookup ==
  /\ pc = "paths"
  /\ IF lookIdx > Len(ctx.paths)
     THEN /\ pc' = "inodes"
          /\ lookIdx' = 1
          /\ UNCHANGED <<results, live, hist>>
     ELSE LET path == ctx.paths[lookIdx]
              i == OpenByPath(fsh, path)
              lf == Alloc(live, "file")
          IN /\ IF i # NoInum
                THEN /\ results' = Append(results,
                                     GenerateFileRow(dh.device_path_,
                                                     ToString(PartAddr(dh, partIdx)), fsh, i,
                                                     path))
                     /\ live' = Free(GenerateFileLive(lf, fsh, i), "file")
                ELSE /\ live' = Free(lf, "file")
                     /\ UNCHANGED results
             /\ lookIdx' = lookIdx + 1
             /\ UNCHANGED pc
             /\ hist' = [hist EXCEPT
                           !.fopens = Append(@, OpenedFile("path", path, fsh, i,
                                                           results, results')),
                           !.mapped = @ + (IF i # NoInum THEN 1 ELSE 0)]
  /\ UNCHANGED <<ctx, devIdx, dh, partIdx, fsh, frames, curPath, calls>>

\* What dereferencing the null pointer meta->getName2(0) may come to: the
\* process dies, or the read yields some text.
NullNameOutcomes == {"crash", "empty", "garbage"}

\* meta->getName2(0): a new handle on slot 0 of the parent-name list, a null
\* pointer when the list is empty.
HasName2(fsid, i) == Inode(fsid, i).name2 # NoName

\* The handle counts after the metadata block of the inode lookup: getMeta,
\* getName2(0) when there is metadata, delete meta.
InodeMetaLive(l, fsid, i) ==
  IF Inode(fsid, i).hasMeta
  THEN Free(IF HasName2(fsid, i) THEN Alloc(Alloc(l, "meta"), "name2")
            ELSE Alloc(l, "meta"),
            "meta")
  ELSE l

\* for (const auto& inode : inodes): one inode per step, and the end of the
\* predicate after the last.
InodeLookup ==
  /\ pc = "inodes"
  /\ IF lookIdx > Len(ctx.inodes)
     THEN /\ live' = Free(live, "fs")
          /\ fsh' = NoFs
          /\ partIdx' = partIdx + 1
          /\ pc' = "partloop"
          /\ UNCHANGED <<lookIdx, results, hist>>
     ELSE LET inode == ctx.inodes[lookIdx]
              meta == safeStrtol(inode).out
              i == OpenByInum(fsh, meta)
              lf == Alloc(live, "file")
          IN /\ UNCHANGED <<fsh, partIdx>>
             /\ IF i = NoInum
                THEN /\ live' = Free(lf, "file")
                     /\ lookIdx' = lookIdx + 1
                     /\ UNCHANGED <<pc, results>>
                ELSE IF Inode(fsh, i).hasMeta /\ ~HasName2(fsh, i)
                THEN \E outcome \in NullNameOutcomes :
                       IF outcome = "crash"
                       THEN /\ pc' = "crashed"
                            /\ live' = Alloc(lf, "meta")
                            /\ UNCHANGED <<lookIdx, results>>
                       ELSE LET path == IF outcome = "empty" THEN ""
                                        ELSE "?"
                            IN /\ results' = Append(results,
                                               GenerateFileRow(dh.device_path_,
                                                 ToString(PartAddr(dh, partIdx)), fsh, i,
                                                     path))
                               /\ live' = Free(GenerateFileLive(
                                                 InodeMetaLive(lf, fsh, i), fsh, i),
                                               "file")
                               /\ lookIdx' = lookIdx + 1
                               /\ UNCHANGED pc
                ELSE LET path == IF Inode(fsh, i).hasMeta
                                 THEN Inode(fsh, i).name2 ELSE ""
                     IN /\ results' = Append(results,
                                        GenerateFileRow(dh.device_path_,
                                          ToString(PartAddr(dh, partIdx)), fsh, i,
                                                     path))
                        /\ live' = Free(GenerateFileLive(
                                          InodeMetaLive(lf, fsh, i), fsh, i),
                                        "file")
                        /\ lookIdx' = lookIdx + 1
                        /\ UNCHANGED pc
             /\ hist' = [hist EXCEPT
                           !.fopens = Append(@, OpenedFile("inode", inode, fsh, i,
                                                           results, results')),
                           !.mapped = @ + (IF i # NoInum /\ pc' # "crashed"
                                           THEN 1 ELSE 0)]
  /\ UNCHANGED <<ctx, devIdx, dh, frames, curPath, calls>>

----------------------------------------------------------------------------
(* The two table generators.                                               *)

Next ==
  \/ GenStart
  \/ NextDevice
  \/ Open
  \/ PartitionsLoop
  \/ GenPartitionRow
  \/ FilePredicate
  \/ WalkEnter
  \/ WalkLoop
  \/ WalkReturn
  \/ ResetStack
  \/ PathLookup
  \/ InodeLookup

Spec == Init /\ [][Next]_vars

\* genDeviceFile on the queries that ask for a walk.
NextWalk ==
  \/ GenStart
  \/ NextDevice
  \/ Open
  \/ PartitionsLoop
  \/ FilePredicate
  \/ WalkEnter
  \/ WalkLoop
  \/ WalkReturn
  \/ ResetStack
  \/ PathLookup
  \/ InodeLookup

SpecWalk == InitWalk /\ [][NextWalk]_vars

\* The generator runs without interruption: a step that can be taken is
\* taken.
FairSpecWalk == SpecWalk /\ WF_vars(NextWalk)

\* genDeviceFile on the queries that ask for a walk of the chain image.
SpecChain == InitChain /\ [][NextWalk]_vars

\* genDeviceFile on the queries that ask for a walk of the bush image.
SpecBush == InitBush /\ [][NextWalk]_vars

----------------------------------------------------------------------------
(* A client that holds one DeviceHelper and calls partitions() on it       *)
(* several times, with a predicate that only looks at the partition.       *)

InitClient ==
  /\ ctx \in [table : {"client"},
              devices : {<<DeviceNames[k]>> : k \in 1..Len(DeviceNames)},
              parts : {<<>>}, paths : {<<>>}, inodes : {<<>>}]
  /\ pc = "client"
  /\ devIdx = 1
  /\ dh = NewDeviceHelper(ctx.devices[1])
  /\ partIdx = 0
  /\ fsh = NoFs
  /\ frames = <<>>
  /\ curPath = ""
  /\ lookIdx = 1
  /\ results = <<>>
  /\ live = NoHandles
  /\ calls = 0
  /\ hist = NoHist

ClientCall ==
  /\ pc = "client"
  /\ calls < MaxCalls
  /\ calls' = calls + 1
  /\ pc' = "open"
  /\ UNCHANGED <<ctx, devIdx, dh, partIdx, fsh, frames, curPath, lookIdx, results, live,
                 hist>>

ClientPredicate ==
  /\ pc = "predicate"
  /\ ctx.table = "client"
  /\ partIdx' = partIdx + 1
  /\ pc' = "partloop"
  /\ UNCHANGED <<ctx, devIdx, dh, fsh, frames, curPath, lookIdx, results, live, calls,
                 hist>>

NextClient ==
  \/ ClientCall
  \/ Open
  \/ PartitionsLoop
  \/ ClientPredicate

SpecClient == InitClient /\ [][NextClient]_vars

----------------------------------------------------------------------------
(* Properties of the depth ceiling, checked on SpecChain.                  *)

\* C1, as stated: no invocation attempts to open a directory once the depth
\* counter, after its increment, exceeds 1024, and never more than 1024
\* invocations of the walker are active at once.
C1_CeilingAt1024 ==
  /\ hist.walk.maxOpenStack <= kMaxStack
  /\ Len(frames) <= kMaxStack

\* C1, amended: every invocation increments the counter; the check reads
\* the counter before the increment, so an invocation returns at the check
\* exactly when the counter after the increment exceeds 1025, and never
\* more than 1026 invocations are active at once, the innermost of them one
\* that returns at the check.
C1_CeilingAt1025 ==
  /\ pc \in {"walk", "reset"} => dh.stack_ = hist.walk.invocations
  /\ hist.walk.maxOpenStack <= kMaxStack + 1
  /\ (pc \in {"walk", "reset"} /\ hist.walk.ceilingHits > 0) =>
       dh.stack_ > kMaxStack + 1
  /\ Len(frames) <= kMaxStack + 2
  /\ Len(frames) = kMaxStack + 2 => frames[Len(frames)].state # "loop"

\* C1: the walk of the chain image stands 1026 invocations deep, the
\* innermost one turned back by the ceiling, the one before it having
\* opened its directory with the counter at 1025.
C1_Witness ==
  /\ fsh = "chain"
  /\ Len(frames) = kMaxStack + 2
  /\ frames[Len(frames)].state = "ret"
  /\ frames[Len(frames) - 1].state = "loop"
  /\ hist.walk.ceilingHits = 1
  /\ hist.walk.maxOpenStack = kMaxStack + 1

----------------------------------------------------------------------------
(* Properties of the walker, checked on SpecWalk and FairSpecWalk.         *)

\* C2: every walk that has started returns to the predicate that called
\* it.
C2_WalkReturns == (pc = "walk") ~> (pc = "reset")

\* C2: the walk of the image whose directory z holds itself has returned,
\* after it had followed z into itself and the ceiling had cut it short.
C2_Witness ==
  /\ pc = "reset"
  /\ fsh = "wide"
  /\ hist.walk.ceilingHits > 0
  /\ "/z/z/z" \in hist.walk.returned

\* C3: within one walk no path is descended into twice, and every element
\* of additional that a loop has passed has been descended into, be it by
\* this loop or before it.
C3_OneDescentPerPath ==
  /\ ~hist.walk.redescent
  /\ \A k \in 1..Len(frames) :
       \A j \in 1..Len(frames[k].additional) :
         j < frames[k].it =>
           Join(FramePath(frames, curPath, k), frames[k].additional[j].name)
             \in hist.walk.returned

\* C3: a walk has ended in which an element was skipped because its path
\* had been descended into (two siblings named x).
C3_Witness ==
  /\ pc = "reset"
  /\ fsh = "odd"
  /\ hist.walk.skips > 0
  /\ "/x" \in hist.walk.returned

----------------------------------------------------------------------------
(* Properties of the two generators, checked on Spec.                      *)

\* C4: when a predicate, a lookup or a walk has returned, every handle it
\* opened has been deleted.
C4_HandlesReleased ==
  pc \in {"partloop", "devloop", "done"} => live = NoHandles

\* C5: no file is opened, and no row pushed, for an inode constraint that
\* is not a decimal number.
C5_NonNumericSkipped ==
  \A k \in 1..Len(hist.fopens) :
    hist.fopens[k].by = "inode" => safeStrtol(hist.fopens[k].key).ok

\* The path C6 expects in the row of an inode: the name in slot 0 of the
\* parent-name list, "" without metadata or without the slot.
C6_ExpectedPath(fsid, i) ==
  IF Inode(fsid, i).hasMeta /\ Inode(fsid, i).name2 # NoName
  THEN Inode(fsid, i).name2 ELSE ""

\* C6: the inode lookup never fails, and for every inode whose file opened
\* it has pushed one row, with the expected path.
C6_OneRowPerInode ==
  /\ pc # "crashed"
  /\ \A k \in 1..Len(hist.fopens) :
       LET o == hist.fopens[k]
       IN (o.by = "inode" /\ o.inum # NoInum) =>
            /\ o.row # 0
            /\ results[o.row].path = C6_ExpectedPath(o.fs, o.inum)

\* The indices below n of the partitions of a device that are not null, in
\* ascending order.
NonNullBelow(dev, n) ==
  SelectSeq([k \in 1..n |-> k - 1],
            LAMBDA i : Device(dev).parts[i + 1] # NoPart)

Openable(dev) == Device(dev).imgOk /\ Device(dev).volOk

\* The device and partition columns C8 expects of the partition listing of
\* the devices from the k-th on.
RECURSIVE C8_ExpectedKeys(_, _)
C8_ExpectedKeys(devs, k) ==
  IF k > Len(devs) THEN <<>>
  ELSE LET idx == IF Openable(devs[k])
                  THEN NonNullBelow(devs[k], Len(Device(devs[k]).parts))
                  ELSE <<>>
       IN [j \in 1..Len(idx) |-> <<devs[k], ToString(idx[j])>>]
          \o C8_ExpectedKeys(devs, k + 1)

\* C8: partitions() calls the predicate on no partition of a device that
\* does not open, and else once on every partition that is not null, in
\* ascending order of the index; the partition listing holds one row for
\* each of them.
C8_VisitsNonNullAscending ==
  /\ pc = "partloop" =>
       /\ Openable(dh.device_path_)
       /\ hist.visits = NonNullBelow(dh.device_path_, partIdx)
  /\ pc = "predicate" =>
       /\ Openable(dh.device_path_)
       /\ hist.visits = NonNullBelow(dh.device_path_, partIdx + 1)
  /\ (pc = "devloop" /\ devIdx > 1) =>
       hist.visits = IF Openable(dh.device_path_)
                     THEN NonNullBelow(dh.device_path_,
                                       Len(Device(dh.device_path_).parts))
                     ELSE <<>>
  /\ (pc = "done" /\ ctx.table = "partitions") =>
       [k \in 1..Len(results) |-> <<results[k].device, results[k].partition>>]
         = C8_ExpectedKeys(ctx.devices, 1)

\* C8: the listing of a device that does not open and of one whose table
\* starts with a null partition is complete.
C8_Witness ==
  /\ pc = "done"
  /\ ctx.table = "partitions"
  /\ ctx.devices = <<"/dev/bad", "/dev/sdb">>
  /\ Len(results) = 3
  /\ hist.visits = <<1, 2, 3>>

\* The partition a row of the partition listing was pushed for.
PartOfRow(r) ==
  LET parts == Device(r.device).parts
  IN parts[CHOOSE k \in 1..Len(parts) : ToString(k - 1) = r.partition]

\* C9: the row of a partition whose filesystem open failed holds -1
\* inodes, the start times the block size of the volume as the offset, that
\* block size, the length and the flags of the partition.
C9_PartitionTableRow ==
  ctx.table = "partitions" =>
    \A k \in 1..Len(results) :
      LET r == results[k]
          part == PartOfRow(r)
          bs == Device(r.device).block_size
      IN part.fs = NoFs =>
           /\ r.inodes = "-1"
           /\ r.offset = ToString(part.start * bs)
           /\ r.blocks_size = ToString(bs)
           /\ r.blocks = ToString(part.len)
           /\ r.flags = ToString(part.flags)

\* C9: the row of the partition of 100 blocks that starts at block 6144 of
\* a volume of 512-byte blocks.
C9_Witness ==
  /\ ctx.table = "partitions"
  /\ \E k \in 1..Len(results) :
       /\ results[k].device = "/dev/sda"
       /\ results[k].partition = "4"
       /\ results[k].offset = "3145728"
       /\ results[k].inodes = "-1"

\* C10: the row of a partition whose filesystem opened holds the type
\* name, flags, offset, block size, block count and inode count of the
\* filesystem.
C10_FilesystemRow ==
  ctx.table = "partitions" =>
    \A k \in 1..Len(results) :
      LET r == results[k]
          part == PartOfRow(r)
      IN part.fs # NoFs =>
           /\ r.type = typeToName(Fs(part.fs).ftype)
           /\ r.type \notin {"meta", "unallocated", "normal"}
           /\ r.flags = ToString(Fs(part.fs).flags)
           /\ r.offset = ToString(Fs(part.fs).offset)
           /\ r.blocks_size = ToString(Fs(part.fs).block_size)
           /\ r.blocks = ToString(Fs(part.fs).block_count)
           /\ r.inodes = ToString(Fs(part.fs).inum_count)

\* C10: the row of a partition flagged meta that holds an ext4 filesystem.
C10_Witness ==
  /\ ctx.table = "partitions"
  /\ \E k \in 1..Len(results) :
       /\ results[k].device = "/dev/sdb"
       /\ results[k].partition = "3"
       /\ results[k].type = "ext4"
       /\ results[k].offset = "1048576"
       /\ results[k].flags = "0"

----------------------------------------------------------------------------
(* Properties of DeviceHelper::open, checked on SpecClient.                *)

\* C7: however often open() is called on one DeviceHelper, the image open
\* is tried at most once, the volume open at most once and only after the
\* image opened, and every call returns what the first returned: whether
\* image and volume both opened.
C7_OpenOnce ==
  /\ hist.imgOpens <= 1
  /\ hist.volOpens <= 1
  /\ hist.openRets # <<>> => hist.imgOpens = 1
  /\ hist.volOpens = 1 <=> (hist.imgOpens = 1 /\ Device(dh.device_path_).imgOk)
  /\ \A k \in 1..Len(hist.openRets) :
       /\ hist.openRets[k] = hist.openRets[1]
       /\ hist.openRets[k] = Openable(dh.device_path_)

\* C7: open() has been called several times on a device whose image opens
\* and whose volume does not.
C7_Witness ==
  /\ dh.device_path_ = "/dev/novs"
  /\ Len(hist.openRets) >= 3
  /\ hist.imgOpens = 1
  /\ hist.volOpens = 1

----------------------------------------------------------------------------
(* Further properties of the partition listing, checked on Spec.           *)

\* C11: in the row of a partition on which no filesystem opens the type is
\* "meta" when the meta flag is set, be the unallocated flag set or not,
\* "unallocated" when the unallocated flag is set and the meta flag is not,
\* and "normal" when neither is set.
C11_TypeFromFlags ==
  ctx.table = "partitions" =>
    \A k \in 1..Len(results) :
      LET r == results[k]
          part == PartOfRow(r)
          meta == HasFlag(part.flags, TSK_VS_PART_FLAG_META)
          unalloc == HasFlag(part.flags, TSK_VS_PART_FLAG_UNALLOC)
      IN part.fs = NoFs =>
           /\ meta => r.type = "meta"
           /\ (unalloc /\ ~meta) => r.type = "unallocated"
           /\ (~unalloc /\ ~meta) => r.type = "normal"

\* C11: the listing of a device holds the row of a partition with both
\* flags set, labelled "meta", and the row of one with the unallocated flag
\* alone; the listing of another the row of one with neither.
C11_Witness ==
  /\ ctx.table = "partitions"
  /\ pc = "done"
  /\ \E k \in 1..Len(results) :
       /\ results[k].device = "/dev/sdb"
       /\ results[k].partition = "2"
       /\ results[k].type = "meta"
  /\ \E k \in 1..Len(results) :
       /\ results[k].device = "/dev/sda"
       /\ results[k].partition = "1"
       /\ results[k].type = "unallocated"
  /\ \E k \in 1..Len(results) :
       /\ results[k].device = "/dev/sda"
       /\ results[k].partition = "4"
       /\ results[k].type = "normal"

----------------------------------------------------------------------------
(* Further properties of the file listing, checked on Spec.                *)

\* C12: a file listing with no device constraint, or with a number of
\* partition constraints other than one, returns no row, constructs no
\* DeviceHelper and opens no image, volume, filesystem or file.
C12_NoConstraintNoWork ==
  (ctx.table = "files" /\ (ctx.devices = <<>> \/ Len(ctx.parts) # 1)) =>
    /\ pc \in {"start", "done"}
    /\ results = <<>>
    /\ dh = NoHelper
    /\ hist.imgOpens = 0
    /\ hist.volOpens = 0
    /\ hist.fsOpens = 0
    /\ hist.fopens = <<>>
    /\ live = NoHandles

\* C12: a file listing of two devices with two partition constraints has
\* returned.
C12_Witness ==
  /\ pc = "done"
  /\ ctx.table = "files"
  /\ ctx.devices = <<"/dev/sda", "/dev/sdb">>
  /\ ctx.parts = <<"1", "2">>
  /\ results = <<>>

\* The file opens of the lookups that succeeded.
OpenedLookups == {k \in 1..Len(hist.fopens) : hist.fopens[k].inum # NoInum}

\* C13, first half: a walk runs only when both the path set and the inode
\* set are empty, and then one runs for every filesystem the predicate
\* opened; no lookup is made in that case.
C13_WalkIffNoKeys ==
  ctx.table = "files" =>
    /\ (ctx.paths # <<>> \/ ctx.inodes # <<>>) =>
          /\ hist.walks = 0
          /\ frames = <<>>
          /\ pc \notin {"walk", "reset"}
    /\ (ctx.paths = <<>> /\ ctx.inodes = <<>>) =>
          /\ hist.fopens = <<>>
          /\ pc \in {"paths", "inodes"} => hist.walks >= 1
          /\ fsh # NoFs => hist.walks >= 1

\* C13, second half: when a path or an inode is supplied, the result holds
\* one row for every lookup whose file opened, and no other row.
C13_RowPerOpenedLookup ==
  (ctx.table = "files" /\ (ctx.paths # <<>> \/ ctx.inodes # <<>>)) =>
    /\ \A k \in OpenedLookups : hist.fopens[k].row # 0
    /\ Len(results) = Cardinality(OpenedLookups)

\* C13: the walk and the lookups exclude each other, and the lookups leave
\* one row for every path and every inode whose file opened.
C13_WalkXorLookups == C13_WalkIffNoKeys /\ C13_RowPerOpenedLookup

----------------------------------------------------------------------------
(* Further properties of the walker, checked on SpecWalk.                  *)

\* C14: when generateFiles is called from the predicate of the file
\* listing, the depth counter of the DeviceHelper is 0 and its visited-set
\* is empty, however many walks the DeviceHelper has made.
C14_WalkStartsReset ==
  (pc = "walk" /\ Len(frames) = 1 /\ frames[1].state = "call") =>
    /\ dh.stack_ = 0
    /\ dh.loops_ = {}

\* C14: the second walk of one DeviceHelper starts (a volume whose two
\* partitions give the same address), the first one having counted its
\* invocations and filled the visited-set.
C14_Witness ==
  /\ pc = "walk"
  /\ Len(frames) = 1
  /\ frames[1].state = "call"
  /\ ctx.devices = <<"/dev/twin">>
  /\ partIdx = 1
  /\ hist.walks = 2
  /\ results # <<>>

----------------------------------------------------------------------------
(* Properties of the output collection, checked on Spec.                   *)

\* C15: every step of a file listing leaves the rows pushed before it in
\* place and unchanged, and appends one row for each call of generateFile
\* it makes, be the metadata or the filesystem of the file retrievable or
\* not.
C15_AppendOnly ==
  [][ctx.table = "files" =>
       /\ Len(results') = Len(results) + (hist'.mapped - hist.mapped)
       /\ SubSeq(results', 1, Len(results)) = results]_vars

\* C15: a listing has ended with several rows, one of them of a file whose
\* metadata was not retrievable and one of a file whose filesystem was not.
C15_Witness ==
  /\ pc = "done"
  /\ ctx.table = "files"
  /\ Len(results) >= 2
  /\ hist.mapped = Len(results)
  /\ \E k \in 1..Len(results) : "inode" \notin DOMAIN results[k]
  /\ \E k \in 1..Len(results) : "block_size" \notin DOMAIN results[k]

----------------------------------------------------------------------------
(* Completeness of the walk, checked on SpecBush.                          *)

\* The images whose directories form a tree (one path to every directory,
\* sibling names distinct) no deeper than a few levels, whose directories
\* all open and whose entries all have metadata.
TreeImages == {"tree", "bush"}

\* The regular files of an image.
RegularInodes(fsid) ==
  {i \in DOMAIN Fs(fsid).inodes : Inode(fsid, i).mtype = "REG"}

\* The rows the walk under way, or just ended, has pushed for an inode.
WalkRowsOf(i) ==
  {k \in (hist.walk.base + 1)..Len(results) :
     "inode" \in DOMAIN results[k] /\ results[k].inode = BIGINT(i)}

\* C16: when the walk of a tree-shaped filesystem has returned, the result
\* holds one row of that walk for every regular file of the filesystem,
\* however many directories the tree has.
C16_OneRowPerRegularFile ==
  (pc = "reset" /\ fsh \in TreeImages) =>
    \A i \in RegularInodes(fsh) : Cardinality(WalkRowsOf(i)) = 1

----------------------------------------------------------------------------
(* Order of rows and descents, checked on SpecWalk.                        *)

\* The places, in native enumeration order, of the entries of a directory
\* that are regular files with metadata.
RegularPlaces(fsid, dir) ==
  {k \in 1..Len(Inode(fsid, dir).entries) :
     /\ Inode(fsid, dir).entries[k].file
     /\ Inode(fsid, Inode(fsid, dir).entries[k].inum).hasMeta
     /\ Inode(fsid, Inode(fsid, dir).entries[k].inum).mtype = "REG"}

\* The j-th of these places.
RegularPlace(fsid, dir, j) ==
  CHOOSE k \in RegularPlaces(fsid, dir) :
    Cardinality({m \in RegularPlaces(fsid, dir) : m < k}) = j - 1

\* C17: the step of an invocation that pushes rows pushes the rows of all
\* regular files of its directory, in native enumeration order, and leaves
\* the invocation at the first element of its pending set; a step that
\* begins a descent, and any other step of the walk, pushes nothing.
C17_FilesBeforeDescent ==
  [][(pc = "walk" /\ results' # results) =>
       LET n == Len(frames)
           dir == DirInode(fsh, frames[n].inode)
           ents == Inode(fsh, dir).entries
           new == SubSeq(results', Len(results) + 1, Len(results'))
       IN /\ frames[n].state = "call"
          /\ Len(frames') = n
          /\ frames'[n].state = "loop"
          /\ frames'[n].it = 1
          /\ SubSeq(results', 1, Len(results)) = results
          /\ Len(new) = Cardinality(RegularPlaces(fsh, dir))
          /\ \A j \in 1..Len(new) :
               LET e == ents[RegularPlace(fsh, dir, j)]
               IN /\ new[j].inode = BIGINT(e.inum)
                  /\ new[j].path = IF e.name = NoName THEN ""
                                   ELSE Join(curPath, e.name)]_vars

\* C17: the first descent from the root of the damaged image has begun,
\* after the rows of the two regular files of the root (one without a name,
\* then /f) were pushed, and before any other row.
C17_Witness ==
  /\ pc = "walk"
  /\ fsh = "odd"
  /\ Len(frames) = 2
  /\ frames[1].it = 1
  /\ frames[2].state = "call"
  /\ Len(results) = hist.walk.base + 2
  /\ results[hist.walk.base + 1].path = ""
  /\ results[hist.walk.base + 2].path = "/f"

\* The entries of a directory that name a subdirectory to descend into:
\* a file with metadata of type directory, with a name other than "." and
\* "..".
SubdirPlaces(fsid, dir) ==
  {k \in 1..Len(Inode(fsid, dir).entries) :
     LET e == Inode(fsid, dir).entries[k]
     IN /\ e.file
        /\ Inode(fsid, e.inum).hasMeta
        /\ Inode(fsid, e.inum).mtype = "DIR"
        /\ e.name \notin {NoName, ".", ".."}}

\* C18: the pending set of an invocation that has passed its directory
\* holds one element for every inode the subdirectory entries refer to and
\* no other, in ascending order of the inode, each with the name of the
\* last entry of that inode; and a descent under way from it is the one
\* into the element its loop stands at.
C18_PendingByInode ==
  \A k \in 1..Len(frames) :
    frames[k].state = "loop" =>
      LET dir == DirInode(fsh, frames[k].inode)
          ents == Inode(fsh, dir).entries
          add == frames[k].additional
          places == SubdirPlaces(fsh, dir)
      IN /\ \A j \in 1..(Len(add) - 1) : add[j].inum < add[j + 1].inum
         /\ {add[j].inum : j \in 1..Len(add)} = {ents[p].inum : p \in places}
         /\ \A j \in 1..Len(add) :
              \E p \in places :
                /\ ents[p].inum = add[j].inum
                /\ ents[p].name = add[j].name
                /\ \A q \in places : ents[q].inum = add[j].inum => q <= p
         /\ k < Len(frames) =>
              /\ frames[k].it \in 1..Len(add)
              /\ frames[k + 1].inode = add[frames[k].it].inum

\* C18: the walk of the root of the damaged image stands at the third of
\* its five pending elements: in native order y, x, x, z, w, k and a
\* directory without a name, z and w being one inode.
C18_Witness ==
  /\ pc = "walk"
  /\ fsh = "odd"
  /\ Len(frames) = 1
  /\ frames[1].state = "loop"
  /\ frames[1].it = 3
  /\ frames[1].additional =
       <<[inum |-> 6, name |-> "w"], [inum |-> 7, name |-> "x"],
         [inum |-> 8, name |-> "y"], [inum |-> 9, name |-> "k"],
         [inum |-> 10, name |-> "x"]>>

\* The places of a directory whose entry is the last one of its inode
\* among the subdirectory entries.
PendingPlaces(fsid, dir) ==
  {p \in SubdirPlaces(fsid, dir) :
     \A q \in SubdirPlaces(fsid, dir) :
       Inode(fsid, dir).entries[q].inum = Inode(fsid, dir).entries[p].inum
         => q <= p}

\* The loop of the innermost invocation has passed the pending element of
\* the inode i.
Passed(i) ==
  LET top == frames[Len(frames)]
  IN \E j \in 1..Len(top.additional) :
       j < top.it /\ top.additional[j].inum = i

\* The inode i was descended into under the path: the path was descended
\* into, once, and the descent returned, and for every named regular file
\* of the directory i the walk pushed as many rows of its path below that
\* path as the directory has entries of it.
DescendedUnder(path, i) ==
  /\ path \in hist.walk.returned
  /\ ~hist.walk.redescent
  /\ DirOpens(fsh, i) =>
       \A r \in RegularPlaces(fsh, i) :
         LET e == Inode(fsh, i).entries[r]
         IN e.name # NoName =>
              Cardinality({n \in WalkRowsOf(e.inum) :
                             results[n].path = Join(path, e.name)})
              = Cardinality({t \in RegularPlaces(fsh, i) :
                               Inode(fsh, i).entries[t] = e})

\* Of the places of the directory of the innermost invocation, those of
\* an inode the loop has passed whose name no place of a lower inode among
\* them has.
PassedUnderOwnPath(places) ==
  LET ents == Inode(fsh, DirInode(fsh, frames[Len(frames)].inode)).entries
  IN {q \in places :
        /\ Passed(ents[q].inum)
        /\ \A r \in places :
             ents[r].name = ents[q].name => ents[r].inum >= ents[q].inum}

\* The path is the path argument of an active invocation: that of the
\* innermost one, or what precedes one of its separators, or "/".
ActivePath(path) ==
  \/ path = curPath
  \/ path = "/"
  \/ /\ Len(path) < Len(curPath)
     /\ SubSeq(curPath, 1, Len(path)) = path
     /\ Char(curPath, Len(path) + 1) = "/"

\* C19, the first half: during a walk the visited-set holds the paths
\* whose descent has returned and no other, and the path of no active
\* invocation.
C19_InsertedAfterReturn ==
  pc = "walk" =>
    /\ dh.loops_ = hist.walk.returned
    /\ \A path \in dh.loops_ : ~ActivePath(path)

\* C19, the second half as amended: in a walk that has not reached the
\* ceiling, once the loop of the innermost invocation has passed an inode,
\* the inode has been descended into under the path of the last entry of it in the
\* directory, unless a lower inode is pending there under the same name,
\* with its regular files emitted under that path.
C19_OncePerPendingPath ==
  (pc = "walk" /\ hist.walk.ceilingHits = 0
   /\ frames[Len(frames)].state = "loop") =>
    LET dir == DirInode(fsh, frames[Len(frames)].inode)
    IN \A q \in PassedUnderOwnPath(PendingPlaces(fsh, dir)) :
         DescendedUnder(Join(curPath, Inode(fsh, dir).entries[q].name),
                        Inode(fsh, dir).entries[q].inum)

\* C19 as amended: both halves.
C19_VisitedByPath ==
  /\ C19_InsertedAfterReturn
  /\ C19_OncePerPendingPath

\* C19, the second half as stated: in a walk that has not reached the
\* ceiling, once the loop of the innermost invocation has passed an inode,
\* the inode has been descended into under the path of every entry of it in the
\* directory, unless a lower inode has an entry of the same name there,
\* with its regular files emitted under each of these paths.
C19_OncePerReachingPath ==
  (pc = "walk" /\ hist.walk.ceilingHits = 0
   /\ frames[Len(frames)].state = "loop") =>
    LET dir == DirInode(fsh, frames[Len(frames)].inode)
    IN \A q \in PassedUnderOwnPath(SubdirPlaces(fsh, dir)) :
         DescendedUnder(Join(curPath, Inode(fsh, dir).entries[q].name),
                        Inode(fsh, dir).entries[q].inum)

\* C19: the walk of the root of the damaged image has passed the inodes 7
\* and 8: the inode 7, pending in the root as x and in the inode 8 (/y) as
\* x, was descended into under /x and under /y/x, and its file c has a row
\* under each.
C19_Witness ==
  /\ pc = "walk"
  /\ fsh = "odd"
  /\ hist.walk.ceilingHits = 0
  /\ Len(frames) = 1
  /\ frames[1].state = "loop"
  /\ Passed(7)
  /\ Passed(8)
  /\ {"/x", "/y/x"} \subseteq dh.loops_
  /\ \E n \in WalkRowsOf(15) : results[n].path = "/x/c"
  /\ \E n \in WalkRowsOf(15) : results[n].path = "/y/x/c"

\* C20: in every step of a walk the counter does not decrease; a step
\* that enters an invocation adds one to it and a step that returns from
\* one leaves it; it is the number of invocations the walk has started;
\* and the invocations that went on to open their directory are at most
\* kMaxStack + 1.
C20_CounterCountsInvocations ==
  [][pc = "walk" =>
       /\ dh'.stack_ >= dh.stack_
       /\ frames[Len(frames)].state = "call" => dh'.stack_ = dh.stack_ + 1
       /\ frames[Len(frames)].state = "ret" => dh'.stack_ = dh.stack_
       /\ dh'.stack_ = hist'.walk.invocations
       /\ hist'.walk.invocations - hist'.walk.ceilingHits <= kMaxStack + 1
       /\ hist'.walk.dirOpens <= hist'.walk.invocations - hist'.walk.ceilingHits]_vars

\* C20: a walk of the three-level image is over: it opened kMaxStack + 1
\* directories, none of them deeper than three invocations, and returned
\* from every later invocation at the ceiling.
C20_Witness ==
  /\ pc = "reset"
  /\ fsh = "bush"
  /\ dh.stack_ > kMaxStack + 1
  /\ dh.stack_ = hist.walk.invocations
  /\ hist.walk.dirOpens = kMaxStack + 1
  /\ hist.walk.ceilingHits > 0

=============================================================================
